---- MODULE Spec2Model ----
(***************************************************************************)
(* fbstream: a framebuffer served as a multipart PNG stream over HTTP.     *)
(*                                                                         *)
(* The model follows src/fbstream.py: main() builds a ConfigHandler whose  *)
(* check_args() validates the arguments and resolves the geometry from     *)
(* the sysfs descriptors, constructs the StreamHandler, and starts the     *)
(* server (CherryPyServer.run).  Each request to /stream calls             *)
(* StreamHandler.stream(), which maps the device and returns the generator *)
(* get_frame(); the worker that took the connection iterates it.           *)
(***************************************************************************)
EXTENDS Integers, FiniteSets, TLC

VARIABLES
    pc,          \* position of main(): config, configured, ready, serving, stopping, exited
    given,       \* the merged arguments as parse_command_line() left them
    args,        \* self.args, as check_args() rewrites it
    sizeFile,    \* what the read of /sys/class/graphics/<dev>/virtual_size did
    bppFile,     \* what the read of /sys/class/graphics/<dev>/bits_per_pixel did
    exc,         \* the exception check_args() ended with, and the statement raising it
    exitStatus,  \* the exit status of the process, -1 while it runs
    warnings,    \* the descriptors logger.warning() was called for
    sizeReads,   \* number of open() calls on virtual_size
    bppReads,    \* number of open() calls on bits_per_pixel
    constructed, \* StreamHandler.__init__ has run
    listening,   \* the listener accepts connections
    signalled,   \* signal_handler has run
    conn         \* per connection: state, generator position, counters

vars == <<pc, given, args, sizeFile, bppFile, exc, exitStatus, warnings,
          sizeReads, bppReads, constructed, listening, signalled, conn>>

(***************************************************************************)
(* Bounds of the model.                                                    *)
(***************************************************************************)
MaxConns == 2
MaxChunks == 1

Conns == 1..MaxConns

(***************************************************************************)
(* Argument values.  A geometry field is the string 'auto', a value the    *)
(* caller gave, or a value read from the device.  A thread count is text:  *)
(* numeric or not.                                                         *)
(***************************************************************************)
Auto == [k |-> "auto", v |-> 0]
Given(n) == [k |-> "given", v |-> n]
Read(n) == [k |-> "read", v |-> n]

WidthValues == {Auto, Given(5)}
HeightValues == {Auto, Given(4)}
DepthValues == {Auto, Given(16)}
DeviceValues == {"", "fb1"}
MinThreadValues == {[num |-> FALSE, v |-> 0], [num |-> TRUE, v |-> 0],
                    [num |-> TRUE, v |-> 1]}
MaxThreadValues == {[num |-> FALSE, v |-> 0], [num |-> TRUE, v |-> -1],
                    [num |-> TRUE, v |-> 1]}

\* Outcomes of reading a descriptor: the open() fails (OSError), the content
\* does not parse, or the content parses.
SizeOutcomes == {[kind |-> "OSError", w |-> 0, h |-> 0],
                 [kind |-> "malformed", w |-> 0, h |-> 0],
                 [kind |-> "ok", w |-> 3, h |-> 2]}
Unread == [kind |-> "unread"]

BppOutcomes == {[kind |-> "OSError", v |-> 0],
                [kind |-> "malformed", v |-> 0],
                [kind |-> "ok", v |-> 16]}

NoExc == [type |-> "none", at |-> "none"]
Raised(t, where) == [type |-> t, at |-> where]

(***************************************************************************)
(* check_args(): validation.                                               *)
(***************************************************************************)
\* int(x) on a numeric text; the callers test IsNumeric first, int() raising
\* ValueError otherwise.
IsNumeric(x) == x.num
IntOf(x) == x.v

\* isinstance(n, int) for a value int() returned
IsInstanceInt(n) == n \in Int

\* lines 259 and 262: `not isinstance(int(x), int)`
InvalidThreads(x) == ~IsInstanceInt(IntOf(x))

\* lines 255-264: do_exit
DoExit(a) ==
    \/ a.device = ""
    \/ InvalidThreads(a.minthreads)
    \/ InvalidThreads(a.maxthreads)

\* lines 255-267: the exception validation ends with, if any
Validate(a) ==
    IF ~IsNumeric(a.minthreads) THEN Raised("ValueError", "minthreads")
    ELSE IF ~IsNumeric(a.maxthreads) THEN Raised("ValueError", "maxthreads")
    ELSE IF DoExit(a) THEN Raised("SystemExit", "exit")
    ELSE NoExc

(***************************************************************************)
(* check_args(): geometry resolution.                                      *)
(***************************************************************************)
\* line 272: 'auto' in (self.args.width, self.args.height)
NeedSizeReadOnlyBoth(a) == a.width = Auto /\ a.height = Auto
NeedSizeRead(a) == a.width = Auto \/ a.height = Auto

\* lines 274-278: the try block around the read of virtual_size.  After an
\* OSError the locals width and height are unbound; a content that does not
\* split into two integers raises ValueError, which `except OSError` lets pass.
SizeRead(out) ==
    CASE out.kind = "ok" ->
            [bound |-> TRUE, w |-> out.w, h |-> out.h, exc |-> NoExc, warn |-> {}]
      [] out.kind = "OSError" ->
            [bound |-> FALSE, w |-> 0, h |-> 0, exc |-> NoExc,
             warn |-> {"virtual_size"}]
      [] out.kind = "malformed" ->
            [bound |-> FALSE, w |-> 0, h |-> 0,
             exc |-> Raised("ValueError", "virtual_size"), warn |-> {}]

\* lines 280-283: the two assignments from the locals
AssignSize(a, rd) ==
    IF a.width = Auto /\ ~rd.bound
    THEN [args |-> a, exc |-> Raised("UnboundLocalError", "width")]
    ELSE LET a1 == IF a.width = Auto THEN [a EXCEPT !.width = Read(rd.w)] ELSE a
         IN  IF a1.height = Auto /\ ~rd.bound
             THEN [args |-> a1, exc |-> Raised("UnboundLocalError", "height")]
             ELSE [args |-> IF a1.height = Auto
                            THEN [a1 EXCEPT !.height = Read(rd.h)] ELSE a1,
                   exc |-> NoExc]

\* lines 272-283
ResolveSize(a, out) ==
    IF ~NeedSizeRead(a)
    THEN [args |-> a, exc |-> NoExc, reads |-> 0, warn |-> {}]
    ELSE LET rd == SizeRead(out)
         IN  IF rd.exc # NoExc
             THEN [args |-> a, exc |-> rd.exc, reads |-> 1, warn |-> rd.warn]
             ELSE LET r == AssignSize(a, rd)
                  IN  [args |-> r.args, exc |-> r.exc, reads |-> 1,
                       warn |-> rd.warn]

\* lines 285-291
ResolveDepth(a, out) ==
    IF a.depth # Auto
    THEN [args |-> a, exc |-> NoExc, reads |-> 0, warn |-> {}]
    ELSE CASE out.kind = "ok" ->
                 [args |-> [a EXCEPT !.depth = Read(out.v)], exc |-> NoExc,
                  reads |-> 1, warn |-> {}]
           [] out.kind = "OSError" ->
                 [args |-> a, exc |-> NoExc, reads |-> 1,
                  warn |-> {"bits_per_pixel"}]
           [] out.kind = "malformed" ->
                 [args |-> a, exc |-> Raised("ValueError", "bits_per_pixel"),
                  reads |-> 1, warn |-> {}]

\* lines 253-291: check_args as a whole
check_args(a, sizeOut, bppOut) ==
    LET v == Validate(a)
    IN  IF v # NoExc
        THEN [args |-> a, exc |-> v, sizeReads |-> 0, bppReads |-> 0, warn |-> {}]
        ELSE LET s == ResolveSize(a, sizeOut)
             IN  IF s.exc # NoExc
                 THEN [args |-> s.args, exc |-> s.exc, sizeReads |-> s.reads,
                       bppReads |-> 0, warn |-> s.warn]
                 ELSE LET d == ResolveDepth(s.args, bppOut)
                      IN  [args |-> d.args, exc |-> d.exc, sizeReads |-> s.reads,
                           bppReads |-> d.reads, warn |-> s.warn \cup d.warn]

\* a geometry field the resolution left undefined
Unresolved(a) == a.width = Auto \/ a.height = Auto \/ a.depth = Auto

(***************************************************************************)
(* The server.  CherryPyServer.run builds wsgi.Server((host, port),        *)
(* handler): the minthreads and maxthreads options that start_server       *)
(* hands to run() are not passed on, so the pool has the server's default  *)
(* number of worker threads.                                               *)
(***************************************************************************)
NumThreads == 10

NewConn == [state |-> "idle", gpc |-> "none", slept |-> FALSE,
            encoded |-> FALSE, chunks |-> 0, after |-> 0, maps |-> 0]

Busy == {c \in Conns : conn[c].state \in {"accepted", "streaming"}}
Streaming(c) == conn[c].state = "streaming"

\* lines 115-117: the first statement of the loop body is the sleep
LoopTopEncode == "encode"
LoopTop == "sleep"

\* lines 110-112 and 128-129: stream() maps the device and returns the
\* generator; an exception of memmap makes the request end with an error
\* response.
stream(cn, mapped) ==
    IF mapped
    THEN [cn EXCEPT !.state = "streaming", !.gpc = LoopTop, !.maps = @ + 1]
    ELSE [cn EXCEPT !.state = "closed_error"]

\* line 117: sleep(0.1)
SleepDone(cn) == [cn EXCEPT !.gpc = "encode", !.slept = TRUE, !.encoded = FALSE]

\* lines 119-123: snapshot of the mapping, encoded as PNG
EncodeRemap(cn) == [cn EXCEPT !.gpc = "yield", !.encoded = TRUE, !.maps = @ + 1]
EncodeDone(cn) == [cn EXCEPT !.gpc = "yield", !.encoded = TRUE]

\* lines 125-126 and 115: the chunk is handed to the server, and the loop
\* goes back to its top
YieldReturn(cn, sig) == [NewConn EXCEPT !.state = "closed_eof", !.maps = cn.maps]
YieldDone(cn, sig) ==
    [cn EXCEPT !.gpc = LoopTop, !.slept = FALSE, !.encoded = FALSE,
               !.chunks = IF @ < MaxChunks THEN @ + 1 ELSE @,
               !.after = IF sig /\ @ < 2 THEN @ + 1 ELSE @]

\* a closed connection: its generator is closed and collected; the record
\* keeps how it ended and the map operations made for it
Closed(cn, how) == [NewConn EXCEPT !.state = how, !.maps = cn.maps]

\* the peer closes connection c: the write of the yielded chunk fails in c's
\* worker, which closes c's generator
PeerClosedAll(cs, c) ==
    [d \in Conns |-> IF cs[d].state = "streaming"
                     THEN Closed(cs[d], "closed_peer") ELSE cs[d]]
PeerClosed(cs, c) == [cs EXCEPT ![c] = Closed(@, "closed_peer")]

(***************************************************************************)
(* Initial state: main() is about to construct the ConfigHandler.          *)
(***************************************************************************)
Init ==
    /\ pc = "config"
    /\ given \in [device : DeviceValues, width : WidthValues,
                  height : HeightValues, depth : DepthValues,
                  minthreads : MinThreadValues, maxthreads : MaxThreadValues]
    /\ args = given
    /\ sizeFile = Unread
    /\ bppFile = Unread
    /\ exc = NoExc
    /\ exitStatus = -1
    /\ warnings = {}
    /\ sizeReads = 0
    /\ bppReads = 0
    /\ constructed = FALSE
    /\ listening = FALSE
    /\ signalled = FALSE
    /\ conn = [c \in Conns |-> NewConn]

(***************************************************************************)
(* main()                                                                  *)
(***************************************************************************)
\* line 300: ConfigHandler(); an exception of check_args ends the process
\* with status 1 (sys.exit(1), or an uncaught exception)
ConfigHandlerInit ==
    /\ pc = "config"
    /\ \E sizeOut \in SizeOutcomes, bppOut \in BppOutcomes :
       LET r == check_args(args, sizeOut, bppOut)
       IN  /\ args' = r.args
           /\ sizeFile' = IF r.sizeReads > 0 THEN sizeOut ELSE Unread
           /\ bppFile' = IF r.bppReads > 0 THEN bppOut ELSE Unread
           /\ exc' = r.exc
           /\ sizeReads' = r.sizeReads
           /\ bppReads' = r.bppReads
           /\ warnings' = r.warn
           /\ pc' = IF r.exc = NoExc THEN "configured" ELSE "exited"
           /\ exitStatus' = IF r.exc = NoExc THEN exitStatus ELSE 1
    /\ UNCHANGED <<given, constructed, listening, signalled, conn>>

\* line 302: StreamHandler(**args)
StreamHandlerInit ==
    /\ pc = "configured"
    /\ constructed' = TRUE
    /\ pc' = "ready"
    /\ UNCHANGED <<given, args, sizeFile, bppFile, exc, exitStatus, warnings,
                   sizeReads, bppReads, listening, signalled, conn>>

\* line 305: start_server() up to server.start() listening
start_server ==
    /\ pc = "ready"
    /\ listening' = TRUE
    /\ pc' = "serving"
    /\ UNCHANGED <<given, args, sizeFile, bppFile, exc, exitStatus, warnings,
                   sizeReads, bppReads, constructed, signalled, conn>>

\* lines 45-48 and 81-86: the handler raises SystemExit in the main thread,
\* which is inside server.start(); run() catches it and calls server.stop(),
\* which closes the listener and waits for the workers
signal_handler ==
    /\ pc = "serving"
    /\ signalled' = TRUE
    /\ listening' = FALSE
    /\ pc' = "stopping"
    /\ UNCHANGED <<given, args, sizeFile, bppFile, exc, exitStatus, warnings,
                   sizeReads, bppReads, constructed, conn>>

\* lines 86 and 306-309: server.stop() returns once no worker is busy
StopDone ==
    /\ pc = "stopping"
    /\ \A c \in Conns : conn[c].state \notin {"queued", "accepted", "streaming"}
    /\ pc' = "exited"
    /\ exitStatus' = 0
    /\ UNCHANGED <<given, args, sizeFile, bppFile, exc, warnings,
                   sizeReads, bppReads, constructed, listening, signalled, conn>>

(***************************************************************************)
(* Connections                                                             *)
(***************************************************************************)
ConnOnly == <<pc, given, args, sizeFile, bppFile, exc, exitStatus, warnings,
              sizeReads, bppReads, constructed, listening, signalled>>

\* a client connects to the listener and waits for a worker
Connect(c) ==
    /\ listening
    /\ conn[c].state = "idle"
    /\ conn' = [conn EXCEPT ![c].state = "queued"]
    /\ UNCHANGED ConnOnly

\* a free worker of the pool takes the connection
WorkerTake(c) ==
    /\ pc = "serving"
    /\ conn[c].state = "queued"
    /\ Cardinality(Busy) < NumThreads
    /\ conn' = [conn EXCEPT ![c].state = "accepted"]
    /\ UNCHANGED ConnOnly

\* lines 108-129: the route callback.  The map fails when a shape entry is
\* still 'auto'; otherwise the device decides.
Stream(c) ==
    /\ conn[c].state = "accepted"
    /\ \E mapped \in (IF Unresolved(args) THEN {FALSE} ELSE {TRUE, FALSE}) :
           conn' = [conn EXCEPT ![c] = stream(@, mapped)]
    /\ UNCHANGED ConnOnly

Sleep(c) ==
    /\ Streaming(c)
    /\ conn[c].gpc = "sleep"
    /\ conn' = [conn EXCEPT ![c] = SleepDone(@)]
    /\ UNCHANGED ConnOnly

Encode(c) ==
    /\ Streaming(c)
    /\ conn[c].gpc = "encode"
    /\ conn' = [conn EXCEPT ![c] = EncodeDone(@)]
    /\ UNCHANGED ConnOnly

Yield(c) ==
    /\ Streaming(c)
    /\ conn[c].gpc = "yield"
    /\ conn' = [conn EXCEPT ![c] = YieldDone(@, signalled)]
    /\ UNCHANGED ConnOnly

PeerClose(c) ==
    /\ Streaming(c)
    /\ conn' = PeerClosed(conn, c)
    /\ UNCHANGED ConnOnly

\* server.stop(): the pool closes the connection of a worker that is still
\* running when its wait has run out, and drops the connections still queued
ShutdownClose(c) ==
    /\ pc = "stopping"
    /\ conn[c].state \in {"queued", "accepted", "streaming"}
    /\ conn' = [conn EXCEPT ![c] = Closed(@, "closed_shutdown")]
    /\ UNCHANGED ConnOnly

Next ==
    \/ ConfigHandlerInit
    \/ StreamHandlerInit
    \/ start_server
    \/ signal_handler
    \/ StopDone
    \/ \E c \in Conns :
          \/ Connect(c)
          \/ WorkerTake(c)
          \/ Stream(c)
          \/ Sleep(c)
          \/ Encode(c)
          \/ Yield(c)
          \/ PeerClose(c)
          \/ ShutdownClose(c)

Spec == Init /\ [][Next]_vars

\* a thread count that is not a positive integer
InvalidCount(x) == ~x.num \/ x.v <= 0

\* the arguments the configuration surface allows: a device name and two
\* positive thread counts
ValidConfig ==
    /\ given.device # ""
    /\ ~InvalidCount(given.minthreads)
    /\ ~InvalidCount(given.maxthreads)

\* the program started with valid arguments, any geometry arguments
InitValid == Init /\ ValidConfig
SpecValid == InitValid /\ [][Next]_vars

(***************************************************************************)
(* Derived quantities                                                      *)
(***************************************************************************)
RECURSIVE SumMaps(_)
SumMaps(S) ==
    IF S = {} THEN 0
    ELSE LET c == CHOOSE x \in S : TRUE
         IN  conn[c].maps + SumMaps(S \ {c})

\* number of numpy.memmap() calls that returned a mapping, over all requests
MapOps == SumMaps(Conns)


\* the generator of connection c can take its next step
CanStep(c) == ENABLED (Sleep(c) \/ Encode(c) \/ Yield(c))

(***************************************************************************)
(* C1: each connection has its own loop and tick position; a step of a     *)
(* streaming connection (a tick, a peer close, a write failure) changes    *)
(* that connection only, and a peer close leaves the server running.       *)
(***************************************************************************)
C1_Isolation ==
    [][\A c \in Conns :
          (conn[c].state = "streaming" /\ conn'[c] # conn[c]) =>
              /\ \A d \in Conns \ {c} : conn'[d] = conn[d]
              /\ conn'[c].state = "closed_peer" =>
                     /\ pc' = pc
                     /\ listening' = listening
                     /\ exitStatus' = exitStatus]_vars

C1_Witness ==
    \E c, d \in Conns :
        /\ c # d
        /\ conn[c].state = "closed_peer"
        /\ conn[d].state = "streaming"
        /\ conn[d].chunks >= 1
        /\ conn[d].gpc = "yield"
        /\ pc = "serving"

(***************************************************************************)
(* C2: streaming is entered from accepted only; a streaming connection's   *)
(* generator always has a next step, and streaming is left only by a peer  *)
(* close or by the shutdown.                                               *)
(***************************************************************************)
C2_Lifecycle ==
    [][\A c \in Conns :
          /\ (conn'[c].state = "streaming" /\ conn[c].state # "streaming")
                 => conn[c].state = "accepted"
          /\ conn[c].state = "streaming" =>
                 /\ conn[c].gpc \in {"sleep", "encode", "yield"}
                 /\ CanStep(c)
                 /\ conn'[c].state \in {"streaming", "closed_peer", "closed_shutdown"}
                 /\ conn'[c].state = "closed_shutdown" => signalled
                 /\ conn'[c].state = "streaming" =>
                        conn'[c].gpc \in {"sleep", "encode", "yield"}]_vars

C2_Witness ==
    \E c, d \in Conns :
        /\ conn[c].state = "closed_peer"
        /\ conn[d].state = "closed_shutdown"
        /\ conn[d].maps = 1

(***************************************************************************)
(* C3: a connection that is about to take the snapshot has completed a     *)
(* sleep since its previous emission (or since its start), and one that is *)
(* about to emit has slept and then encoded since its previous emission.   *)
(***************************************************************************)
C3_Pacing ==
    \A c \in Conns :
        conn[c].state = "streaming" =>
            /\ conn[c].gpc = "sleep" => ~conn[c].slept /\ ~conn[c].encoded
            /\ conn[c].gpc = "encode" => conn[c].slept /\ ~conn[c].encoded
            /\ conn[c].gpc = "yield" => conn[c].slept /\ conn[c].encoded

C3_Witness ==
    \E c \in Conns :
        /\ conn[c].state = "streaming"
        /\ conn[c].chunks >= 1
        /\ conn[c].gpc = "yield"
        /\ conn[c].slept
        /\ conn[c].encoded

(***************************************************************************)
(* C4: after the termination signal the listener is closed and every       *)
(* streaming connection emits at most one more chunk (stated for valid     *)
(* arguments).                                                             *)
(***************************************************************************)
C4_ClosedWithinOneTick ==
    (ValidConfig /\ signalled) =>
        /\ ~listening
        /\ \A c \in Conns : conn[c].after <= 1

(***************************************************************************)
(* C5: with a positive maxthreads configured, at most maxthreads           *)
(* connections are served at the same time.                                *)
(***************************************************************************)
C5_PoolBoundedByMaxthreads ==
    (ValidConfig /\ pc \in {"serving", "stopping"}) =>
        Cardinality(Busy) <= IntOf(args.maxthreads)

(***************************************************************************)
(* C6: the server never listens, and no connection is accepted, while a    *)
(* geometry field is unresolved (stated for valid arguments).              *)
(***************************************************************************)
C6_NoServingUndefinedGeometry ==
    (ValidConfig /\ (listening \/ \E c \in Conns : conn[c].state # "idle"))
        => ~Unresolved(args)

(***************************************************************************)
(* C7: when the read of a descriptor failed, the resolution warned about   *)
(* that descriptor and ended without raising.  Stated for valid arguments  *)
(* and for the failure of open() (device not present, permission denied),  *)
(* for either descriptor.                                                  *)
(***************************************************************************)
C7_ReadFailureIsWarning ==
    ValidConfig =>
        /\ sizeFile.kind = "OSError" =>
               exc = NoExc /\ "virtual_size" \in warnings
        /\ bppFile.kind = "OSError" =>
               exc = NoExc /\ "bits_per_pixel" \in warnings

(***************************************************************************)
(* C8: virtual_size is not read when width and height are both given, and  *)
(* read once when one of them is 'auto'; after the resolution each field   *)
(* that was 'auto' holds the value read (width first, height second) and   *)
(* each given field holds the caller's value.                              *)
(***************************************************************************)
C8_SizeResolution ==
    /\ sizeReads <= 1
    /\ (given.width # Auto /\ given.height # Auto) =>
           sizeReads = 0 /\ sizeFile = Unread
    /\ (pc # "config" /\ exc.at \notin {"minthreads", "maxthreads", "exit"}
          /\ (given.width = Auto \/ given.height = Auto)) =>
           sizeReads = 1 /\ sizeFile # Unread
    /\ (pc # "config" /\ exc = NoExc) =>
           /\ args.width = IF given.width = Auto THEN Read(sizeFile.w)
                           ELSE given.width
           /\ args.height = IF given.height = Auto THEN Read(sizeFile.h)
                            ELSE given.height

C8_Witness ==
    /\ pc = "configured"
    /\ given.width = Auto
    /\ given.height # Auto
    /\ sizeReads = 1
    /\ sizeFile.kind = "ok"
    /\ args.width = Read(sizeFile.w)
    /\ args.height = given.height

C10_InvalidThreadsFatal ==
    (InvalidCount(given.minthreads) \/ InvalidCount(given.maxthreads)) =>
        /\ ~constructed
        /\ ~listening
        /\ pc = "exited" => exitStatus # 0

====
